---- MODULE Spec2Model ----
(***************************************************************************)
(* Model of gitlabform's configuration resolver                            *)
(* (gitlabform/configuration/core.py, projects.py, __init__.py).           *)
(*                                                                         *)
(* Strings are sequences of atoms (one atom per character; the long        *)
(* section names are single lower-case atoms).  Configuration values are   *)
(* tagged: [t |-> "sc"] scalars, [t |-> "seq"] lists, [t |-> "map"] dicts. *)
(* A dict the code iterates (projects_and_groups) also carries its         *)
(* insertion order in the field ord.                                       *)
(***************************************************************************)
EXTENDS Integers, Sequences, FiniteSets, TLC

VARIABLES phase, source, blob, config, lastOp, arg, result

vars == <<phase, source, blob, config, lastOp, arg, result>>

-----------------------------------------------------------------------------
(* Bounds *)

MaxEntries == 3

MaxSkip == 2

MaxItems == 4

MaxScalar == 2

-----------------------------------------------------------------------------
(* Strings *)

Str(c) == <<c>>

UpperCase ==
    <<"A", "B", "C", "D", "E", "F", "G", "H", "I", "J", "K", "L", "M",
      "N", "O", "P", "Q", "R", "S", "T", "U", "V", "W", "X", "Y", "Z">>

LowerCase ==
    <<"a", "b", "c", "d", "e", "f", "g", "h", "i", "j", "k", "l", "m",
      "n", "o", "p", "q", "r", "s", "t", "u", "v", "w", "x", "y", "z">>

LowerChar(c) ==
    IF \E i \in 1..Len(UpperCase) : UpperCase[i] = c
    THEN LowerCase[CHOOSE i \in 1..Len(UpperCase) : UpperCase[i] = c]
    ELSE c

Lower(s) == [i \in 1..Len(s) |-> LowerChar(s[i])]

Ord(c) ==
    IF \E i \in 1..Len(UpperCase) : UpperCase[i] = c
    THEN 64 + (CHOOSE i \in 1..Len(UpperCase) : UpperCase[i] = c)
    ELSE IF \E i \in 1..Len(LowerCase) : LowerCase[i] = c
    THEN 96 + (CHOOSE i \in 1..Len(LowerCase) : LowerCase[i] = c)
    ELSE CASE c = "*" -> 42
           [] c = "/" -> 47
           [] c = "|" -> 124
           [] OTHER -> 200

RECURSIVE StrLess(_, _)
StrLess(a, b) ==
    IF b = <<>> THEN FALSE
    ELSE IF a = <<>> THEN TRUE
    ELSE IF Ord(Head(a)) # Ord(Head(b)) THEN Ord(Head(a)) < Ord(Head(b))
    ELSE StrLess(Tail(a), Tail(b))

StartsWith(s, prefix) ==
    /\ Len(prefix) <= Len(s)
    /\ SubSeq(s, 1, Len(prefix)) = prefix

EndsWith(s, suffix) ==
    /\ Len(suffix) <= Len(s)
    /\ SubSeq(s, Len(s) - Len(suffix) + 1, Len(s)) = suffix

Contains(s, c) == \E i \in 1..Len(s) : s[i] = c

RECURSIVE Split(_, _)
Split(s, sep) ==
    IF ~Contains(s, sep) THEN <<s>>
    ELSE LET i == CHOOSE j \in 1..Len(s) :
                      s[j] = sep /\ \A k \in 1..(j - 1) : s[k] # sep
         IN <<SubSeq(s, 1, i - 1)>> \o Split(SubSeq(s, i + 1, Len(s)), sep)

RSplit1(s, sep) ==
    IF ~Contains(s, sep) THEN <<s>>
    ELSE LET i == CHOOSE j \in 1..Len(s) :
                      s[j] = sep /\ \A k \in (j + 1)..Len(s) : s[k] # sep
         IN <<SubSeq(s, 1, i - 1), SubSeq(s, i + 1, Len(s))>>

RECURSIVE InsertSorted(_, _)
InsertSorted(x, sorted) ==
    IF sorted = <<>> THEN <<x>>
    ELSE IF StrLess(x, Head(sorted)) THEN <<x>> \o sorted
    ELSE <<Head(sorted)>> \o InsertSorted(x, Tail(sorted))

RECURSIVE Sorted(_)
Sorted(xs) ==
    IF xs = <<>> THEN <<>> ELSE InsertSorted(Head(xs), Sorted(Tail(xs)))

Range(f) == {f[i] : i \in DOMAIN f}

-----------------------------------------------------------------------------
(* Values *)

None == [t |-> "none"]

Sc(v) == [t |-> "sc", v |-> v]

List(s) == [t |-> "seq", s |-> s]

Map(f) == [t |-> "map", m |-> f]

Dict(f, order) == [t |-> "map", m |-> f, ord |-> order]

Bool(b) == [t |-> "bool", b |-> b]

EmptyMap == Map(<<>>)

IsMap(v) == v.t = "map"

Truthy(v) ==
    CASE v.t = "none" -> FALSE
      [] v.t = "sc" -> v.v # 0
      [] v.t = "seq" -> v.s # <<>>
      [] v.t = "map" -> DOMAIN v.m # {}
      [] v.t = "bool" -> v.b

Return(v) == [exc |-> "", val |-> v]

Raise(e) == [exc |-> e, val |-> None]

-----------------------------------------------------------------------------
(* ConfigurationCore (core.py) *)

CanIndex(current, token) ==
    /\ current.t = "map"
    /\ token \in DOMAIN current.m

RECURSIVE Descend(_, _)
Descend(current, tokens) ==
    IF tokens = <<>> THEN Return(current)
    ELSE IF CanIndex(current, Head(tokens))
         THEN Descend(current.m[Head(tokens)], Tail(tokens))
         ELSE Raise("lookup")

get(cfg, path, default) ==
    LET r == Descend(cfg, Split(path, "|"))
    IN IF r.exc = "" THEN r
       ELSE IF default # None THEN Return(default)
       ELSE Raise("KeyNotFoundException")

RECURSIVE ScanKeysExactly(_, _, _)
ScanKeysExactly(a_dict, keys, a_key) ==
    IF keys = <<>> THEN Raise("KeyNotFoundException")
    ELSE IF Head(keys) = a_key THEN Return(a_dict.m[Head(keys)])
    ELSE ScanKeysExactly(a_dict, Tail(keys), a_key)

RECURSIVE ScanKeys(_, _, _)
ScanKeys(a_dict, keys, a_key) ==
    IF keys = <<>> THEN Raise("KeyNotFoundException")
    ELSE IF Lower(Head(keys)) = Lower(a_key) THEN Return(a_dict.m[Head(keys)])
    ELSE ScanKeys(a_dict, Tail(keys), a_key)

get_case_insensitively(a_dict, a_key) == ScanKeys(a_dict, a_dict.ord, a_key)

get_group_config(cfg, group) ==
    LET pg == get(cfg, Str("projects_and_groups"), None)
        r == IF pg.exc # "" THEN pg
             ELSE get_case_insensitively(pg.val, group \o <<"/", "*">>)
    IN IF r.exc = "KeyNotFoundException" THEN Return(EmptyMap) ELSE r

get_project_config(cfg, group_and_project) ==
    LET pg == get(cfg, Str("projects_and_groups"), None)
        r == IF pg.exc # "" THEN pg
             ELSE get_case_insensitively(pg.val, group_and_project)
    IN IF r.exc = "KeyNotFoundException" THEN Return(EmptyMap) ELSE r

get_common_config(cfg) == get(cfg, <<"projects_and_groups", "|", "*">>, EmptyMap)

RECURSIVE is_skipped_by_path_segment(_, _)
is_skipped_by_path_segment(an_array, item) ==
    IF an_array = <<>> THEN FALSE
    ELSE LET list_element == Lower(Head(an_array))
             prefix == SubSeq(list_element, 1, Len(list_element) - 2)
         IN IF list_element = Lower(item) THEN TRUE
            ELSE IF /\ EndsWith(list_element, <<"/", "*">>)
                    /\ \/ Lower(item) = prefix
                       \/ StartsWith(Lower(item), prefix \o <<"/">>)
                 THEN TRUE
                 ELSE is_skipped_by_path_segment(Tail(an_array), item)

RECURSIVE is_skipped_case_insensitively(_, _)
is_skipped_case_insensitively(an_array, item) ==
    IF an_array = <<>> THEN FALSE
    ELSE LET list_element == Lower(Head(an_array))
             prefix == SubSeq(list_element, 1, Len(list_element) - 2)
         IN IF list_element = Lower(item) THEN TRUE
            ELSE IF /\ EndsWith(list_element, <<"/", "*">>)
                    /\ StartsWith(Lower(item), prefix)
                    /\ Len(Lower(item)) >= Len(prefix)
                 THEN TRUE
                 ELSE is_skipped_case_insensitively(Tail(an_array), item)

is_project_skipped(cfg, project) ==
    Return(Bool(is_skipped_case_insensitively(
               get(cfg, Str("skip_projects"), List(<<>>)).val.s, project)))

is_group_skipped(cfg, group) ==
    Return(Bool(is_skipped_case_insensitively(
               get(cfg, Str("skip_groups"), List(<<>>)).val.s, group)))

RECURSIVE DeepMergeAdditive(_, _)
DeepMergeAdditive(dst, src) ==
    Map([k \in DOMAIN dst.m \cup DOMAIN src.m |->
            IF k \notin DOMAIN src.m THEN dst.m[k]
            ELSE IF k \notin DOMAIN dst.m THEN src.m[k]
            ELSE IF IsMap(dst.m[k]) /\ IsMap(src.m[k])
                 THEN DeepMergeAdditive(dst.m[k], src.m[k])
                 ELSE IF dst.m[k].t = "seq" /\ src.m[k].t = "seq"
                      THEN List(dst.m[k].s \o src.m[k].s)
                      ELSE src.m[k]])

RECURSIVE DeepMerge(_, _)
DeepMerge(dst, src) ==
    Map([k \in DOMAIN dst.m \cup DOMAIN src.m |->
            IF k \notin DOMAIN src.m THEN dst.m[k]
            ELSE IF k \notin DOMAIN dst.m THEN src.m[k]
            ELSE IF IsMap(dst.m[k]) /\ IsMap(src.m[k])
                 THEN DeepMerge(dst.m[k], src.m[k])
                 ELSE src.m[k]])

merge_configs_general_wins(more_general_config, more_specific_config) ==
    [value    |-> DeepMerge(DeepMerge(EmptyMap, more_specific_config),
                            more_general_config),
     general  |-> more_general_config,
     specific |-> more_specific_config]

merge_configs_in_place(more_general_config, more_specific_config) ==
    [value    |-> DeepMerge(more_general_config, more_specific_config),
     general  |-> DeepMerge(more_general_config, more_specific_config),
     specific |-> more_specific_config]

merge_configs(more_general_config, more_specific_config) ==
    [value    |-> DeepMerge(DeepMerge(EmptyMap, more_general_config),
                            more_specific_config),
     general  |-> more_general_config,
     specific |-> more_specific_config]

ItemsOf(dict_or_list) ==
    IF IsMap(dict_or_list) THEN dict_or_list.ord ELSE dict_or_list.s

RECURSIVE Occurrences(_, _, _)
Occurrences(first_item, lowercase_names, seen) ==
    IF lowercase_names = <<>> \/ seen = 2 THEN seen
    ELSE Occurrences(first_item, Tail(lowercase_names),
                     IF Lower(first_item) = Lower(Head(lowercase_names))
                     THEN seen + 1 ELSE seen)

RECURSIVE CollectLastOfEachName(_, _)
CollectLastOfEachName(items, lowercase_names) ==
    IF items = <<>> THEN <<>>
    ELSE (IF /\ Occurrences(Head(items), lowercase_names, 0) = 2
             /\ \A i \in 2..Len(items) : Lower(items[i]) # Lower(Head(items))
          THEN <<Head(items)>> ELSE <<>>)
         \o CollectLastOfEachName(Tail(items), lowercase_names)

RECURSIVE CollectDuplicates(_, _)
CollectDuplicates(items, lowercase_names) ==
    IF items = <<>> THEN <<>>
    ELSE (IF Occurrences(Head(items), lowercase_names, 0) = 2
          THEN <<Head(items)>> ELSE <<>>)
         \o CollectDuplicates(Tail(items), lowercase_names)

_find_almost_duplicate(cfg, configuration_path) ==
    LET got == get(cfg, configuration_path, None)
        items == ItemsOf(got.val)
        items_with_lowercase_names == [i \in 1..Len(items) |-> Lower(items[i])]
    IN IF got.exc # "" THEN got
       ELSE IF Cardinality(Range(items))
                  # Cardinality(Range(items_with_lowercase_names))
            THEN Return(List(CollectDuplicates(items, items_with_lowercase_names)))
            ELSE Return(List(<<>>))

ProtectedSectionsWithoutSkipProjects ==
    <<Str("projects_and_groups"), Str("skip_groups")>>

ProtectedSections ==
    <<Str("projects_and_groups"), Str("skip_groups"), Str("skip_projects")>>

RECURSIVE ScanSections(_, _)
ScanSections(cfg, paths) ==
    IF paths = <<>> THEN Return(None)
    ELSE IF Truthy(get(cfg, Head(paths), Sc(0)).val)
         THEN LET almost_duplicates == _find_almost_duplicate(cfg, Head(paths))
              IN IF almost_duplicates.exc # "" THEN almost_duplicates
                 ELSE IF almost_duplicates.val.s # <<>>
                      THEN [exc |-> "SystemExit",
                            val |-> List(<<Head(paths)>> \o almost_duplicates.val.s)]
                      ELSE ScanSections(cfg, Tail(paths))
         ELSE ScanSections(cfg, Tail(paths))

_find_almost_duplicates(cfg) == ScanSections(cfg, ProtectedSections)

ConfigVersion(tree) ==
    IF Str("config_version") \in DOMAIN tree.m
    THEN tree.m[Str("config_version")] ELSE Sc(1)

ExampleConfig(tree) ==
    IF Str("example_config") \in DOMAIN tree.m
    THEN tree.m[Str("example_config")] ELSE None

_load_config(src, tree) ==
    IF src = "both" THEN Raise("SystemExit")
    ELSE IF src = "string" THEN Return(tree)
    ELSE IF src = "nofile" THEN Raise("ConfigFileNotFoundException")
    ELSE IF Truthy(ExampleConfig(tree)) THEN Raise("SystemExit")
    ELSE IF ConfigVersion(tree) # Sc(2) THEN Raise("SystemExit")
    ELSE Return(tree)

__init__(src, tree) ==
    LET ld == _load_config(src, tree)
        ad == _find_almost_duplicates(ld.val)
    IN IF ld.exc # "" THEN ld
       ELSE IF ad.exc # "" THEN ad
       ELSE ld

-----------------------------------------------------------------------------
(* ConfigurationGroups (groups.py) *)

RECURSIVE FoldLevels(_, _, _, _)
FoldLevels(cfg, elements, last_element, effective_config) ==
    IF elements = <<>> THEN effective_config
    ELSE LET current_level == IF last_element = <<>> THEN Head(elements)
                              ELSE last_element \o <<"/">> \o Head(elements)
             level_config == get_group_config(cfg, current_level).val
         IN FoldLevels(cfg, Tail(elements), current_level,
                       merge_configs(effective_config, level_config).value)

get_effective_subgroup_config(cfg, subgroup) ==
    FoldLevels(cfg, Split(subgroup, "/"), <<>>, get_common_config(cfg).val)

-----------------------------------------------------------------------------
(* ConfigurationProjects (projects.py) *)

RECURSIVE ExplicitProjects(_)
ExplicitProjects(keys) ==
    IF keys = <<>> THEN <<>>
    ELSE (IF Head(keys) # Str("*") /\ ~EndsWith(Head(keys), <<"/", "*">>)
          THEN <<Head(keys)>> ELSE <<>>)
         \o ExplicitProjects(Tail(keys))

get_projects(cfg) ==
    LET projects_and_groups == get(cfg, Str("projects_and_groups"), None)
    IN IF projects_and_groups.exc # "" THEN projects_and_groups
       ELSE Return(List(Sorted(ExplicitProjects(projects_and_groups.val.ord))))

(* The object a lookup returned is the object stored in the tree: what a   *)
(* callee does to it shows in the tree.                                    *)
StoreLayer(cfg, key, layer) ==
    LET pg == Descend(cfg, <<Str("projects_and_groups")>>)
    IN IF pg.exc = "" /\ IsMap(pg.val) /\ key \in DOMAIN pg.val.m
       THEN Map([cfg.m EXCEPT ![Str("projects_and_groups")] =
                    Dict([pg.val.m EXCEPT ![key] = layer], pg.val.ord)])
       ELSE cfg

StoreLayerInsensitively(cfg, a_key, layer) ==
    LET pg == Descend(cfg, <<Str("projects_and_groups")>>)
        hits == IF pg.exc = "" /\ IsMap(pg.val)
                THEN {i \in 1..Len(pg.val.ord) : Lower(pg.val.ord[i]) = Lower(a_key)}
                ELSE {}
    IN IF hits = {} THEN cfg
       ELSE StoreLayer(cfg, pg.val.ord[CHOOSE i \in hits : \A j \in hits : i <= j],
                       layer)

get_effective_config_for_project(cfg, group_and_project) ==
    LET common_config == get_common_config(cfg).val
        parts == RSplit1(group_and_project, "/")
        group == parts[1]
        group_config == IF Contains(group, "/")
                        THEN get_effective_subgroup_config(cfg, group)
                        ELSE get_group_config(cfg, group).val
        project_config == get_project_config(cfg, group_and_project).val
        common_and_group == merge_configs(common_config, group_config)
        effective == merge_configs(common_and_group.value, project_config)
        cfg1 == StoreLayer(cfg, Str("*"), common_and_group.general)
        cfg2 == IF Contains(group, "/") THEN cfg1
                ELSE StoreLayerInsensitively(cfg1, group \o <<"/", "*">>,
                                             common_and_group.specific)
        cfg3 == StoreLayerInsensitively(cfg2, group_and_project, effective.specific)
    IN IF Len(parts) # 2
       THEN [exc |-> "ValueError", val |-> None, cfg |-> cfg]
       ELSE [exc |-> "", val |-> effective.value, cfg |-> cfg3]

-----------------------------------------------------------------------------
(* Inputs *)

SeqsUpTo(S, n) == UNION {[1..k -> S] : k \in 0..n}

Distinct(seq) == \A i, j \in 1..Len(seq) : i # j => seq[i] # seq[j]

Scalars == {Sc(v) : v \in 1..MaxScalar}

KeyX == Str("x")

KeyY == Str("y")

KeyZ == Str("z")

KeyW == Str("w")

LayerA == Map((KeyX :> Sc(1)) @@ (KeyY :> Sc(1)) @@ (KeyZ :> Map(KeyY :> Sc(1))))

LayerB == Map((KeyX :> Sc(2)) @@ (KeyW :> List(<<1>>)) @@ (KeyZ :> Map(KeyX :> Sc(1))))

LayerTrees == {LayerA, LayerB}

EntryKeys ==
    {<<"*">>, <<"g", "/", "*">>, <<"g", "/", "p">>, <<"G", "/", "P">>}

ProjectNames ==
    {<<"g", "/", "p">>, <<"G", "/", "P">>, <<"g", "/", "q">>,
     <<"g", "/", "s", "/", "p">>, <<"g">>}

GroupNames == {<<"g">>, <<"G">>, <<"t">>}

SkipEntries ==
    {<<"t", "/", "*">>, <<"T", "/", "*">>, <<"t", "w">>, <<"g", "/", "p">>}

SkipItems ==
    {<<"t">>, <<"T">>, <<"t", "/", "x">>, <<"t", "w">>, <<"T", "W">>,
     <<"g">>, <<"G", "/", "P">>}

Paths ==
    {<<"projects_and_groups", "|", "*">>,
     <<"projects_and_groups", "|", "*", "|", "x">>,
     Str("skip_groups"), Str("missing")}

Defaults == {None, EmptyMap, Sc(0)}

IndexOf(seq, x) == CHOOSE i \in 1..Len(seq) : seq[i] = x

MakeDict(order, layers) ==
    Dict([k \in Range(order) |-> layers[IndexOf(order, k)]], order)

ProjectsAndGroups ==
    UNION {{MakeDict(order, layers) : layers \in [1..Len(order) -> LayerTrees]} :
              order \in {o \in SeqsUpTo(EntryKeys, MaxEntries) : Distinct(o)}}

SkipLists == {List(l) : l \in SeqsUpTo(SkipEntries, MaxSkip)}

TopKeys ==
    <<Str("example_config"), Str("config_version"), Str("projects_and_groups"),
      Str("skip_groups"), Str("skip_projects")>>

(* A parsed document: the i-th part is the value of the i-th top-level key, *)
(* None when the document has no such key.                                  *)
MakeConfig(parts) ==
    Map([k \in {TopKeys[i] : i \in {j \in 1..5 : parts[j] # None}} |->
            parts[IndexOf(TopKeys, k)]])

SampleSection ==
    MakeDict(<<Str("*"), <<"g", "/", "p">>>>, <<LayerA, LayerB>>)

ShapeInputs ==
    {<<src, MakeConfig(<<example, version, pg, None, None>>)>> :
        src \in {"path", "string", "both", "nofile"},
        example \in {None, Sc(0), Sc(1)},
        version \in {None, Sc(1), Sc(2)},
        pg \in {None, SampleSection}}

LayerInputs ==
    {<<src, MakeConfig(<<None, Sc(2), pg, None, None>>)>> :
        src \in {"path", "string"}, pg \in ProjectsAndGroups}

SampleSkipList == List(<<(<<"g", "/", "p">>)>>)

SkipInputs ==
    {<<src, MakeConfig(<<None, Sc(2), None, sg, sp>>)>> :
        src \in {"path", "string"},
        sg \in {None} \cup SkipLists, sp \in {None, SampleSkipList}}
    \cup
    {<<src, MakeConfig(<<None, Sc(2), None, sg, sp>>)>> :
        src \in {"path", "string"},
        sg \in {None, SampleSkipList}, sp \in {None} \cup SkipLists}

Inputs == ShapeInputs \cup LayerInputs \cup SkipInputs

-----------------------------------------------------------------------------
(* Configuration facade: construction and queries *)

Init ==
    /\ phase = "new"
    /\ \E input \in Inputs : source = input[1] /\ blob = input[2]
    /\ config = None
    /\ lastOp = "none"
    /\ arg = <<>>
    /\ result = Return(None)

Construct ==
    /\ phase = "new"
    /\ LET r == __init__(source, blob)
       IN /\ phase' = IF r.exc = "" THEN "ready" ELSE "aborted"
          /\ config' = IF r.exc = "" THEN r.val ELSE config
          /\ result' = r
    /\ lastOp' = "__init__"
    /\ arg' = <<>>
    /\ UNCHANGED <<source, blob>>

Query(op, a, r) ==
    /\ phase = "ready"
    /\ lastOp' = op
    /\ arg' = a
    /\ result' = r
    /\ UNCHANGED <<phase, source, blob, config>>

Get ==
    \E path \in Paths, default \in Defaults :
        Query("get", <<path, default>>, get(config, path, default))

GetGroupConfig ==
    \E group \in GroupNames :
        Query("get_group_config", <<group>>, get_group_config(config, group))

GetProjectConfig ==
    \E name \in ProjectNames :
        Query("get_project_config", <<name>>, get_project_config(config, name))

GetCommonConfig ==
    Query("get_common_config", <<>>, get_common_config(config))

IsProjectSkipped ==
    \E project \in SkipItems :
        Query("is_project_skipped", <<project>>, is_project_skipped(config, project))

IsGroupSkipped ==
    \E group \in SkipItems :
        Query("is_group_skipped", <<group>>, is_group_skipped(config, group))

GetProjects ==
    Query("get_projects", <<>>, get_projects(config))

GetEffectiveConfigForProject ==
    \E name \in ProjectNames :
        LET r == get_effective_config_for_project(config, name)
        IN /\ phase = "ready"
           /\ lastOp' = "get_effective_config_for_project"
           /\ arg' = <<name>>
           /\ result' = [exc |-> r.exc, val |-> r.val]
           /\ config' = r.cfg
           /\ UNCHANGED <<phase, source, blob>>

MergeConfigs ==
    \E general \in LayerTrees \cup {EmptyMap}, specific \in LayerTrees \cup {EmptyMap} :
        LET r == merge_configs(general, specific)
        IN /\ phase = "ready"
           /\ lastOp' = "merge_configs"
           /\ arg' = <<general, specific>>
           /\ result' = [exc |-> "", val |-> r.value,
                         general |-> r.general, specific |-> r.specific]
           /\ UNCHANGED <<phase, source, blob, config>>

Next ==
    \/ Construct
    \/ Get
    \/ GetGroupConfig
    \/ GetProjectConfig
    \/ GetCommonConfig
    \/ IsProjectSkipped
    \/ IsGroupSkipped
    \/ GetProjects
    \/ GetEffectiveConfigForProject
    \/ MergeConfigs

Spec == Init /\ [][Next]_vars

-----------------------------------------------------------------------------
(* merge_configs on arbitrary trees *)

Leaves == Scalars \cup {List(<<1>>)}

MapsOver(keys, values) ==
    UNION {{Map(f) : f \in [d -> values]} : d \in SUBSET keys}

InnerMaps == MapsOver({KeyX}, Leaves)

Trees == MapsOver({KeyX, KeyY}, Leaves \cup InnerMaps)

InitMerge ==
    /\ phase = "operands"
    /\ source = "none"
    /\ blob = None
    /\ config = None
    /\ lastOp = "none"
    /\ arg \in Trees \X Trees \X Trees
    /\ result = Return(None)

MergeThree ==
    /\ phase = "operands"
    /\ phase' = "merged"
    /\ lastOp' = "merge_configs"
    /\ LET ab == merge_configs(arg[1], arg[2])
           bc == merge_configs(arg[2], arg[3])
           ba == merge_configs(arg[2], arg[1])
           left == merge_configs(ab.value, arg[3])
           right == merge_configs(arg[1], bc.value)
       IN result' = [exc |-> "", ab |-> ab.value, ba |-> ba.value,
                     left |-> left.value, right |-> right.value]
    /\ UNCHANGED <<source, blob, config, arg>>

NextMerge == MergeThree

SpecMerge == InitMerge /\ [][NextMerge]_vars

-----------------------------------------------------------------------------
(* _find_almost_duplicate on arbitrary sections *)

SectionNames == {<<"a">>, <<"A">>, <<"b">>, <<"B">>}

MappingSections ==
    {MakeDict(order, [i \in 1..Len(order) |-> EmptyMap]) :
        order \in {o \in SeqsUpTo(SectionNames, MaxItems) : Distinct(o)}}

SequenceSections == {List(l) : l \in SeqsUpTo(SectionNames, MaxItems)}

InitSection ==
    /\ phase = "section"
    /\ source = "none"
    /\ blob = None
    /\ \E path \in Range(ProtectedSections) :
         \E section \in IF path = Str("projects_and_groups")
                         THEN MappingSections ELSE SequenceSections :
            /\ config = Map(path :> section)
            /\ arg = <<path>>
    /\ lastOp = "none"
    /\ result = Return(None)

FindAlmostDuplicate ==
    /\ phase = "section"
    /\ phase' = "scanned"
    /\ lastOp' = "_find_almost_duplicate"
    /\ result' = _find_almost_duplicate(config, arg[1])
    /\ UNCHANGED <<source, blob, config, arg>>

NextSection == FindAlmostDuplicate

SpecSection == InitSection /\ [][NextSection]_vars

-----------------------------------------------------------------------------
(* Properties *)

NameSection == Str("projects_and_groups")

HasSection(tree, name) == tree.t = "map" /\ name \in DOMAIN tree.m

SectionEntries(tree, name) ==
    IF ~HasSection(tree, name) THEN <<>>
    ELSE IF tree.m[name].t = "map" THEN tree.m[name].ord
    ELSE IF tree.m[name].t = "seq" THEN tree.m[name].s
    ELSE <<>>

SameIgnoringCase(a, b) == Lower(a) = Lower(b)

(* The layer a name denotes: the value of the one key equal to it ignoring *)
(* case, the empty tree when there is none.                                *)
LayerNamed(tree, name) ==
    LET keys == {k \in Range(SectionEntries(tree, NameSection)) :
                    SameIgnoringCase(k, name)}
    IN IF keys = {} THEN EmptyMap
       ELSE tree.m[NameSection].m[CHOOSE k \in keys : TRUE]

CommonLayer(tree) ==
    IF Str("*") \in Range(SectionEntries(tree, NameSection))
    THEN tree.m[NameSection].m[Str("*")] ELSE EmptyMap

HasTopLevelGroup(name) == Len(Split(name, "/")) = 2

GroupPattern(name) == Split(name, "/")[1] \o <<"/", "*">>

Defines(layer, k) == k \in DOMAIN layer.m

LeafAt(layer, k) == Defines(layer, k) /\ ~IsMap(layer.m[k])

LayeredLeaves(common, group, project, merged) ==
    /\ DOMAIN merged.m = DOMAIN common.m \cup DOMAIN group.m \cup DOMAIN project.m
    /\ \A k \in DOMAIN merged.m :
        /\ LeafAt(project, k) => merged.m[k] = project.m[k]
        /\ (~Defines(project, k) /\ LeafAt(group, k)) => merged.m[k] = group.m[k]
        /\ (~Defines(project, k) /\ ~Defines(group, k)) => merged.m[k] = common.m[k]
        /\ (~Defines(common, k) /\ ~Defines(group, k)) => merged.m[k] = project.m[k]
        /\ (~Defines(common, k) /\ ~Defines(project, k)) => merged.m[k] = group.m[k]

(* C1: the effective configuration of a project "group/project" in a       *)
(* top-level group is merge(merge(common, group layer), project layer): a  *)
(* leaf takes the project's value, else the group's, else the common one;  *)
(* a key of one layer only passes through; an absent layer is empty.       *)
EffectiveIsLayeredMerge ==
    (/\ phase = "ready"
     /\ lastOp = "get_effective_config_for_project"
     /\ HasTopLevelGroup(arg[1]))
    => LET common == CommonLayer(blob)
           group == LayerNamed(blob, GroupPattern(arg[1]))
           project == LayerNamed(blob, arg[1])
       IN /\ result.exc = ""
          /\ result.val = DeepMerge(DeepMerge(common, group), project)
          /\ LayeredLeaves(common, group, project, result.val)

EffectiveThreeLayers ==
    /\ phase = "ready"
    /\ lastOp = "get_effective_config_for_project"
    /\ arg = <<(<<"G", "/", "P">>)>>
    /\ CommonLayer(blob) = LayerA
    /\ LayerNamed(blob, <<"g", "/", "*">>) = LayerB
    /\ LayerNamed(blob, <<"g", "/", "p">>) = LayerA
    /\ result.val.m[KeyX] = Sc(1)
    /\ result.val.m[KeyW] = List(<<1>>)

(* C2: a facade is constructed only from a tree without a truthy           *)
(* example_config and with config_version equal to 2, whichever way the    *)
(* blob was supplied.                                                      *)
ConstructedHasShape ==
    phase = "ready" =>
        /\ ~(HasSection(config, Str("example_config"))
             /\ Truthy(config.m[Str("example_config")]))
        /\ HasSection(config, Str("config_version"))
        /\ config.m[Str("config_version")] = Sc(2)

Collides(entries) ==
    \E i, j \in 1..Len(entries) :
        entries[i] # entries[j] /\ SameIgnoringCase(entries[i], entries[j])

AllSections == <<NameSection, Str("skip_groups"), Str("skip_projects")>>

AnySectionCollides(tree) ==
    \E i \in 1..3 : Collides(SectionEntries(tree, AllSections[i]))

(* C3: a constructed facade has no two entries of projects_and_groups,     *)
(* skip_groups or skip_projects that differ only in case; a tree that      *)
(* passes loading is refused exactly when a section has such a pair.       *)
CaseCollisionInvariant ==
    /\ phase = "ready" => ~AnySectionCollides(config)
    /\ (phase # "new" /\ _load_config(source, blob).exc = "")
         => (phase = "aborted" <=> AnySectionCollides(blob))

CollisionRefused ==
    /\ phase = "aborted"
    /\ _load_config(source, blob).exc = ""
    /\ Collides(SectionEntries(blob, Str("skip_projects")))
    /\ ~Collides(SectionEntries(blob, Str("skip_groups")))
    /\ result.exc = "SystemExit"

RECURSIVE Sandwiched(_, _, _)
Sandwiched(a, b, c) ==
    \E k \in DOMAIN a.m \cap DOMAIN b.m \cap DOMAIN c.m :
        /\ IsMap(a.m[k])
        /\ IsMap(c.m[k])
        /\ IsMap(b.m[k]) => Sandwiched(a.m[k], b.m[k], c.m[k])

(* C4 as stated: merge(merge(A, B), C) = merge(A, merge(B, C)) for all     *)
(* trees A, B, C, whatever kinds of values they hold.                      *)
MergeAssociative ==
    phase = "merged" => result.left = result.right

(* C4: merge(merge(A, B), C) = merge(A, merge(B, C)) for all trees in      *)
(* which no position holds a mapping in A and in C and a scalar or a       *)
(* sequence in B.                                                          *)
MergeAssociativeUnlessSandwiched ==
    (phase = "merged" /\ ~Sandwiched(arg[1], arg[2], arg[3]))
        => result.left = result.right

MergeNotCommutative ==
    /\ phase = "merged"
    /\ ~Sandwiched(arg[1], arg[2], arg[3])
    /\ \A i \in 1..3 : KeyX \in DOMAIN arg[i].m
    /\ IsMap(arg[1].m[KeyX])
    /\ IsMap(arg[2].m[KeyX])
    /\ arg[3].m[KeyX].t = "seq"
    /\ result.ab # result.ba
    /\ result.left = result.right

SkipList(tree, name) ==
    IF HasSection(tree, name) THEN tree.m[name].s ELSE <<>>

EntryMatches(entry, item) ==
    LET e == Lower(entry)
        it == Lower(item)
    IN \/ e = it
       \/ /\ Len(e) >= 2
          /\ e[Len(e) - 1] = "/"
          /\ e[Len(e)] = "*"
          /\ Len(it) >= Len(e) - 2
          /\ \A i \in 1..(Len(e) - 2) : it[i] = e[i]

(* C5: an item is skipped exactly when some entry of the list, lower-cased, *)
(* equals the lower-cased item or ends with "/*" and the lower-cased item   *)
(* starts with the entry minus that suffix; is_project_skipped and          *)
(* is_group_skipped apply this to skip_projects and skip_groups, an absent  *)
(* section being the empty list.                                            *)
SkipMatchesExactly ==
    /\ (phase = "ready" /\ lastOp = "is_project_skipped") =>
          /\ result.exc = ""
          /\ result.val.b <=>
                \E i \in DOMAIN SkipList(blob, Str("skip_projects")) :
                    EntryMatches(SkipList(blob, Str("skip_projects"))[i], arg[1])
    /\ (phase = "ready" /\ lastOp = "is_group_skipped") =>
          /\ result.exc = ""
          /\ result.val.b <=>
                \E i \in DOMAIN SkipList(blob, Str("skip_groups")) :
                    EntryMatches(SkipList(blob, Str("skip_groups"))[i], arg[1])

SkipRawPrefixMatch ==
    /\ phase = "ready"
    /\ lastOp = "is_project_skipped"
    /\ arg = <<(<<"t", "w">>)>>
    /\ SkipList(blob, Str("skip_projects")) = <<(<<"g", "/", "p">>), (<<"T", "/", "*">>)>>
    /\ result.val.b

(* C6: KeyNotFound reaches the caller only from get called without a       *)
(* default; every other query turns a failed lookup into an empty tree, an *)
(* empty list or false.                                                    *)
KeyNotFoundOnlyFromGet ==
    (phase = "ready" /\ result.exc = "KeyNotFoundException")
        => (lastOp = "get" /\ arg[2] = None)

(* C7: after construction the tree stays the tree that was loaded through  *)
(* every query, and merge_configs leaves both its arguments as they were.  *)
TreeNeverChanged ==
    /\ phase = "ready" => config = blob
    /\ (phase = "ready" /\ lastOp = "merge_configs") =>
          /\ result.general = arg[1]
          /\ result.specific = arg[2]

MergedButNotStored ==
    /\ phase = "ready"
    /\ lastOp = "get_effective_config_for_project"
    /\ arg = <<(<<"g", "/", "p">>)>>
    /\ CommonLayer(config) = LayerA
    /\ LayerNamed(config, <<"g", "/", "*">>) = LayerB
    /\ result.val # LayerA
    /\ result.val # LayerB
    /\ config = blob

Scanned == SectionEntries(config, arg[1])

SharesName(entries, i) ==
    \E j \in DOMAIN entries : j # i /\ SameIgnoringCase(entries[j], entries[i])

InCollisionGroup(entries, x) ==
    \E j \in DOMAIN entries : entries[j] # x /\ SameIgnoringCase(entries[j], x)

RECURSIVE IsSubsequence(_, _)
IsSubsequence(sub, seq) ==
    IF sub = <<>> THEN TRUE
    ELSE IF seq = <<>> THEN FALSE
    ELSE IF Head(sub) = Head(seq) THEN IsSubsequence(Tail(sub), Tail(seq))
    ELSE IsSubsequence(sub, Tail(seq))

RECURSIVE SharingFrom(_, _)
SharingFrom(entries, i) ==
    IF i > Len(entries) THEN <<>>
    ELSE (IF SharesName(entries, i) THEN <<entries[i]>> ELSE <<>>)
         \o SharingFrom(entries, i + 1)

(* C8 as stated: with collisions the detector reports one representative   *)
(* per collision group, in iteration order; without, the empty sequence.   *)
OneRepresentativePerGroup ==
    phase = "scanned" =>
        LET reported == result.val.s
        IN /\ ~Collides(Scanned) => reported = <<>>
           /\ Collides(Scanned) =>
                /\ IsSubsequence(reported, Scanned)
                /\ \A i \in DOMAIN reported : InCollisionGroup(Scanned, reported[i])
                /\ \A i \in DOMAIN Scanned :
                      InCollisionGroup(Scanned, Scanned[i]) =>
                          \E j \in DOMAIN reported :
                              SameIgnoringCase(reported[j], Scanned[i])
                /\ \A i, j \in DOMAIN reported :
                      i # j => ~SameIgnoringCase(reported[i], reported[j])

(* C8: with a case collision in the section the detector reports, in       *)
(* iteration order, every entry whose lower-cased form is shared with      *)
(* another entry of the section; without one, the empty sequence.          *)
AllSharingEntriesReported ==
    phase = "scanned" =>
        /\ result.exc = ""
        /\ result.val.s = IF Collides(Scanned) THEN SharingFrom(Scanned, 1) ELSE <<>>

WholeGroupReported ==
    /\ phase = "scanned"
    /\ IsMap(config.m[arg[1]])
    /\ Scanned = <<(<<"B">>), (<<"a">>), (<<"A">>)>>
    /\ result.val.s = <<(<<"a">>), (<<"A">>)>>

(* C9: every reported item is an almost duplicate: the section has another *)
(* entry that is a different string but equal to it after lower-casing.    *)
ReportedAreAlmostDuplicates ==
    phase = "scanned" =>
        \A i \in DOMAIN result.val.s : InCollisionGroup(Scanned, result.val.s[i])

Variants(c) ==
    {d \in Range(UpperCase) \cup Range(LowerCase) \cup {c} :
        LowerChar(d) = LowerChar(c)}

RECURSIVE CaseVariants(_)
CaseVariants(name) ==
    IF name = <<>> THEN {<<>>}
    ELSE {<<c>> \o rest : c \in Variants(Head(name)),
                          rest \in CaseVariants(Tail(name))}

Reorderings(tree) ==
    IF ~HasSection(tree, NameSection) THEN {tree}
    ELSE LET pg == tree.m[NameSection]
             n == Len(pg.ord)
         IN {Map([tree.m EXCEPT ![NameSection] =
                     Dict(pg.m, [i \in 1..n |-> pg.ord[perm[i]]])]) :
                perm \in {f \in [1..n -> 1..n] :
                             \A i, j \in 1..n : i # j => f[i] # f[j]}}

Answer(r) == [exc |-> r.exc, val |-> r.val]

(* C10: a constructed facade answers get_project_config, get_group_config  *)
(* and, for a project in a top-level group,                                *)
(* get_effective_config_for_project the same for every spelling of the     *)
(* name that is equal after lower-casing and for every order of the keys   *)
(* of projects_and_groups.                                                 *)
ResolutionIgnoresCaseAndOrder ==
    phase = "ready" =>
        \A tree \in Reorderings(config) :
            /\ lastOp = "get_project_config" =>
                  \A name \in CaseVariants(arg[1]) :
                      get_project_config(tree, name) = result
            /\ lastOp = "get_group_config" =>
                  \A name \in CaseVariants(arg[1]) :
                      get_group_config(tree, name) = result
            /\ (lastOp = "get_effective_config_for_project"
                    /\ HasTopLevelGroup(arg[1])) =>
                  \A name \in CaseVariants(arg[1]) :
                      Answer(get_effective_config_for_project(tree, name)) = result

OtherSpellingResolved ==
    /\ phase = "ready"
    /\ lastOp = "get_project_config"
    /\ arg = <<(<<"G", "/", "P">>)>>
    /\ SectionEntries(config, NameSection) = <<(<<"g", "/", "*">>), (<<"*">>), (<<"g", "/", "p">>)>>
    /\ result = Return(LayerB)
    /\ LayerNamed(config, <<"g", "/", "*">>) = LayerA

====
